---- MODULE Spec2Model ----
(***************************************************************************)
(* RepositorySelect.js: the repository selector of the cred explorer.      *)
(*                                                                         *)
(* loadStatus fetches the repository registry, reads the persisted         *)
(* selection from the LocalStore and computes a Status.  RepositorySelect  *)
(* holds the Status, LocalStoreRepositorySelect writes every selection     *)
(* through to the LocalStore, PureRepositorySelect renders the <select>    *)
(* whose options are the "owner/name" strings of the available repos.      *)
(*                                                                         *)
(* Strings are sequences of one-character strings, so that the template    *)
(* `${owner}/${name}`, String.split and the validation regexp are          *)
(* computed character by character.                                        *)
(***************************************************************************)
EXTENDS Integers, Sequences, FiniteSets, TLC

VARIABLES
  status,      \* RepositorySelect this.state.status
  store,       \* the LocalStore's value under REPO_KEY (Null: key absent)
  pc,          \* where componentDidMount's loadStatus promise stands
  run,         \* what loadStatus met on its way: fetch, json, list, get, pref
  promise,     \* how the promise returned by loadStatus settled
  hostCount,   \* number of calls of RepositorySelect's props.onChange
  hostLast,    \* argument of the latest call of props.onChange
  initCalls,   \* arguments props.onChange got from componentDidMount's callback
  event,       \* the handler that ran last, its argument, the status type before
  codec        \* a repo or an option string on its way through the codec

vars ==
  <<status, store, pc, run, promise, hostCount, hostLast, initCalls, event, codec>>

(***************************************************************************)
(* Bounds                                                                  *)
(***************************************************************************)
\* longest registry list
MaxRepos == 3
\* most calls of the host's onChange in one run
MaxCalls == 3

(***************************************************************************)
(* Strings and repos                                                       *)
(***************************************************************************)
\* UTF-16 code units of the characters used, the order < and > compare by
Code(c) ==
  CASE c = "!" -> 33
    [] c = "-" -> 45
    [] c = "/" -> 47
    [] c = "a" -> 97
    [] c = "b" -> 98
    [] c = "m" -> 109
    [] c = "z" -> 122

Alphabet == {"!", "-", "/", "a", "b", "m", "z"}

\* the characters of Alphabet the class [A-Za-z0-9_-] holds
validRe == {"-", "a", "b", "m", "z"}

Null == [type |-> "null"]

Repo(o, n) == [owner |-> o, name |-> n]

\* the repos the registry, the store and the callers may hold: the three of
\* the documentation's example, and one whose owner the regexp rejects
Repos ==
  { Repo(<<"a">>, <<"z">>), Repo(<<"a">>, <<"a">>), Repo(<<"b">>, <<"m">>),
    Repo(<<"a", "/">>, <<"a">>) }

RECURSIVE ListsUpTo(_)
ListsUpTo(n) ==
  IF n = 0 THEN {<<>>}
  ELSE LET shorter == ListsUpTo(n - 1)
       IN  shorter \cup {Append(l, r) : l \in {s \in shorter : Len(s) = n - 1}, r \in Repos}

RepoLists == ListsUpTo(MaxRepos)

\* the arrays fromJSON returns: every element is a Repo, whose owner and
\* name are non-empty strings of letters, digits, "_" and "-"
fromJSON ==
  { l \in RepoLists :
      \A i \in 1..Len(l) :
        \A s \in {l[i].owner, l[i].name} :
          /\ s # <<>>
          /\ \A k \in 1..Len(s) :
               \/ Code(s[k]) \in {45, 95}
               \/ Code(s[k]) \in 48..57
               \/ Code(s[k]) \in 65..90
               \/ Code(s[k]) \in 97..122 }

(***************************************************************************)
(* lodash.sortby by owner, then name                                       *)
(***************************************************************************)
\* s < t on JavaScript strings: by code unit, a proper prefix first
RECURSIVE StrLess(_, _)
StrLess(s, t) ==
  IF t = <<>> THEN FALSE
  ELSE IF s = <<>> THEN TRUE
  ELSE IF Code(Head(s)) # Code(Head(t)) THEN Code(Head(s)) < Code(Head(t))
  ELSE StrLess(Tail(s), Tail(t))

\* lodash compareAscending on two strings
compareAscending(value, other) ==
  IF StrLess(other, value) THEN 1
  ELSE IF StrLess(value, other) THEN -1
  ELSE 0

\* only the first iteratee is compared
compareMultiple_ownerOnly(object, other) ==
  compareAscending(object.owner, other.owner)

\* lodash compareMultiple with the iteratees (r) => r.owner, (r) => r.name
compareMultiple(object, other) ==
  IF compareAscending(object.owner, other.owner) # 0
    THEN compareAscending(object.owner, other.owner)
    ELSE compareAscending(object.name, other.name)

\* an element equal to one already placed is dropped
Insert_unique(sorted, x) ==
  IF \E i \in 1..Len(sorted) : sorted[i] = x THEN sorted
  ELSE LET k == Cardinality({i \in 1..Len(sorted) : compareMultiple(sorted[i], x) <= 0})
       IN  SubSeq(sorted, 1, k) \o <<x>> \o SubSeq(sorted, k + 1, Len(sorted))

\* x put behind the elements that do not compare greater: the sort is stable
Insert(sorted, x) ==
  LET k == Cardinality({i \in 1..Len(sorted) : compareMultiple(sorted[i], x) <= 0})
  IN  SubSeq(sorted, 1, k) \o <<x>> \o SubSeq(sorted, k + 1, Len(sorted))

RECURSIVE sortBy(_)
sortBy(list) ==
  IF list = <<>> THEN <<>>
  ELSE Insert(sortBy(SubSeq(list, 1, Len(list) - 1)), list[Len(list)])

(***************************************************************************)
(* repoStringToRepo, validateRepo and the option strings                   *)
(***************************************************************************)
\* the slash is left out of the template
repoString_noSlash(repo) == repo.owner \o repo.name

\* `${owner}/${name}`
repoString(repo) == repo.owner \o <<"/">> \o repo.name

\* x.split("/"): the pieces between the slashes, empty pieces kept
RECURSIVE split(_)
split(x) ==
  IF x = <<>> THEN << <<>> >>
  ELSE LET rest == split(Tail(x))
       IN  IF Head(x) = "/" THEN << <<>> >> \o rest
           ELSE << <<Head(x)>> \o rest[1] >> \o Tail(rest)

\* s.match(/^[A-Za-z0-9_-]+$/) is not null
matchValidRe(s) == Len(s) >= 1 /\ \A i \in 1..Len(s) : s[i] \in validRe

\* the name is not validated
validateRepo_ownerOnly(repo) == matchValidRe(repo.owner)

\* TRUE when validateRepo returns, FALSE when it throws
validateRepo(repo) == matchValidRe(repo.owner) /\ matchValidRe(repo.name)

ParseError == [ok |-> FALSE]

\* the pieces are taken in the wrong order
repoStringToRepo_swapped(x) ==
  LET pieces == split(x)
  IN  IF Len(pieces) # 2 THEN ParseError
      ELSE LET repo == Repo(pieces[2], pieces[1])
           IN  IF validateRepo(repo) THEN [ok |-> TRUE, repo |-> repo]
               ELSE ParseError

repoStringToRepo(x) ==
  LET pieces == split(x)
  IN  IF Len(pieces) # 2 THEN ParseError
      ELSE LET repo == Repo(pieces[1], pieces[2])
           IN  IF validateRepo(repo) THEN [ok |-> TRUE, repo |-> repo]
               ELSE ParseError

(***************************************************************************)
(* Status and loadStatus                                                   *)
(***************************************************************************)
Loading == [type |-> "LOADING"]
NoRepos == [type |-> "NO_REPOS"]
Failure == [type |-> "FAILURE"]
Valid(availableRepos, selectedRepo) ==
  [type |-> "VALID", availableRepos |-> availableRepos, selectedRepo |-> selectedRepo]

Undefined == [type |-> "undefined"]

\* the values are compared by identity: a value read back from the
\* LocalStore is never the object the registry was decoded into
deepEqual_identity(x, y) == FALSE

\* lodash.isequal on two plain values
deepEqual(x, y) == x = y

\* Array.prototype.find with (x) => deepEqual(x, localStoreRepo)
RECURSIVE find(_, _)
find(list, localStoreRepo) ==
  IF list = <<>> THEN Undefined
  ELSE IF deepEqual(Head(list), localStoreRepo) THEN Head(list)
  ELSE find(Tail(list), localStoreRepo)

\* NullUtil.orElse
orElse(x, default) == IF x = Undefined \/ x = Null THEN default ELSE x

\* the stored repo is taken without looking for it in the registry
selectRepo_trustStore(availableRepos, localStoreRepo) ==
  orElse(localStoreRepo, availableRepos[Len(availableRepos)])

\* the fallback is the last repo of the sorted list
selectRepo_afterSort(availableRepos, localStoreRepo) ==
  orElse(find(availableRepos, localStoreRepo),
         sortBy(availableRepos)[Len(availableRepos)])

\* the stored repo is not consulted
selectRepo_alwaysLast(availableRepos, localStoreRepo) ==
  availableRepos[Len(availableRepos)]

selectRepo(availableRepos, localStoreRepo) ==
  orElse(find(availableRepos, localStoreRepo), availableRepos[Len(availableRepos)])

\* how a stretch of the function body ends
Return(v) == [kind |-> "return", value |-> v]
Throw == [kind |-> "throw"]
Await == [kind |-> "await"]

\* the body up to `await response.json()`
loadStatusFetched(fetch) ==
  IF fetch = "rejected" THEN Throw
  ELSE IF fetch = "notOk" THEN Return(Failure)
  ELSE Await

\* the length of the list is not looked at
loadStatusDecoded_noEmptyCheck(json, availableRepos, get, localStoreRepo) ==
  IF json = "rejected" \/ json = "undecodable" THEN Throw
  ELSE IF get = "throws" THEN Throw
  ELSE IF Len(availableRepos) = 0 THEN Return(Valid(<<>>, Undefined))
  ELSE Return(Valid(sortBy(availableRepos), selectRepo(availableRepos, localStoreRepo)))

\* the body from `await response.json()` on; get is "throws" when
\* localStore.get raises, and localStoreRepo is what it returns otherwise
loadStatusDecoded(json, availableRepos, get, localStoreRepo) ==
  IF json = "rejected" \/ json = "undecodable" THEN Throw
  ELSE IF Len(availableRepos) = 0 THEN Return(NoRepos)
  ELSE IF get = "throws" THEN Throw
  ELSE Return(Valid(sortBy(availableRepos), selectRepo(availableRepos, localStoreRepo)))

\* no catch clause: what the body throws leaves the function
tryCatch_noCatch(completion) == completion

\* try { ... } catch (e) { console.error(e); return {type: "FAILURE"}; }
tryCatch(completion) ==
  IF completion.kind = "throw" THEN Return(Failure) ELSE completion

\* the promise of the async function once its body completed
settle(completion) ==
  IF completion.kind = "return" THEN [state |-> "fulfilled", value |-> completion.value]
  ELSE [state |-> "rejected"]

Pending == [state |-> "pending"]

(***************************************************************************)
(* RepositorySelect, LocalStoreRepositorySelect, PureRepositorySelect      *)
(***************************************************************************)
NoEvent == [op |-> "constructor", repo |-> Null, before |-> "LOADING"]

\* atStart is what the LocalStore held when loadStatus was called; session
\* numbers the RepositorySelect instances that shared the LocalStore, and
\* prev is the repo the instance before this one was last told to select
NoRun ==
  [fetch |-> "pending", json |-> "pending", list |-> <<>>, get |-> "pending",
   pref |-> Null, atStart |-> Null, session |-> 1, prev |-> Null]

\* no repo and no option string is in the codec
CodecIdle == [stage |-> "idle", repo |-> Null, token |-> <<>>, result |-> Null]

\* the host's onChange, as RepositorySelect sees it: calls so far, last argument
Host(count, last) == [count |-> count, last |-> last]

\* the selected repo is spread over the status whatever its type
onChange_noGuard(st, host, selectedRepo) ==
  [status |-> IF st.type = "VALID" THEN [st EXCEPT !.selectedRepo = selectedRepo]
              ELSE [type |-> st.type, selectedRepo |-> selectedRepo],
   host |-> Host(host.count + 1, selectedRepo)]

\* the host is told only of the selections that changed the status
onChange_onlyValid(st, host, selectedRepo) ==
  IF st.type = "VALID"
    THEN [status |-> [st EXCEPT !.selectedRepo = selectedRepo],
          host |-> Host(host.count + 1, selectedRepo)]
    ELSE [status |-> st, host |-> host]

\* RepositorySelect.onChange: the status it sets and its call of props.onChange
onChange(st, host, selectedRepo) ==
  [status |-> IF st.type = "VALID" THEN [st EXCEPT !.selectedRepo = selectedRepo] ELSE st,
   host |-> Host(host.count + 1, selectedRepo)]

\* status.selectedRepo as JavaScript reads it off any status
selectedRepoOf(st) == IF st.type = "VALID" THEN st.selectedRepo ELSE Undefined

\* the callback notifies for every status
notifies_always(st) == TRUE

\* the callback never notifies
notifies_never(st) == FALSE

\* componentDidMount's callback: status.type === "VALID"
notifies(st) == st.type = "VALID"

\* the option values PureRepositorySelect.render puts in the <select>; no
\* <select> is rendered unless the status is VALID with a selected repo
renderOptions(st) ==
  IF st.type = "VALID" /\ st.selectedRepo # Null
    THEN [i \in 1..Len(st.availableRepos) |-> repoString(st.availableRepos[i])]
    ELSE <<>>

Init ==
  /\ status = Loading
  /\ store \in Repos \cup {Null}
  /\ pc = "constructed"
  /\ run = NoRun
  /\ promise = Pending
  /\ hostCount = 0
  /\ hostLast = Null
  /\ initCalls = <<>>
  /\ event = NoEvent
  /\ codec = CodecIdle

\* componentDidMount calls loadStatus, which runs up to `await fetch(...)`
Mount ==
  /\ pc = "constructed"
  /\ pc' = "fetching"
  /\ run' = [run EXCEPT !.atStart = store]
  /\ event' = [op |-> "componentDidMount", repo |-> Null, before |-> status.type]
  /\ UNCHANGED <<status, store, promise, hostCount, hostLast, initCalls, codec>>

\* the promise of loadStatus settles and the callback componentDidMount
\* gave to then() runs: setState, and props.onChange for a VALID status; a
\* rejected promise never runs it
Settled(completion) ==
  LET p == settle(completion)
      notify == p.state = "fulfilled" /\ notifies(p.value)
  IN  /\ promise' = p
      /\ pc' = "done"
      /\ status' = IF p.state = "fulfilled" THEN p.value ELSE status
      /\ hostCount' = IF notify THEN hostCount + 1 ELSE hostCount
      /\ hostLast' = IF notify THEN selectedRepoOf(p.value) ELSE hostLast
      /\ initCalls' = IF notify THEN Append(initCalls, selectedRepoOf(p.value)) ELSE initCalls
      /\ event' = [op |-> "resolved", repo |-> Null, before |-> status.type]

\* fetch(REPO_REGISTRY_API) settles: rejected, a response that is not ok, or ok
FetchSettles ==
  /\ pc = "fetching"
  /\ \E fetch \in {"rejected", "notOk", "ok"} :
       LET completion == tryCatch(loadStatusFetched(fetch))
       IN  /\ run' = [run EXCEPT !.fetch = fetch]
           /\ IF completion.kind = "await"
                THEN /\ pc' = "decoding"
                     /\ event' = [op |-> "fetched", repo |-> Null, before |-> status.type]
                     /\ UNCHANGED <<status, promise, hostCount, hostLast, initCalls>>
                ELSE Settled(completion)
  /\ UNCHANGED <<store, codec>>

\* the LocalStore is read before the fetch
localStoreGet_atStart(atStart, now) == atStart

\* localStore.get(REPO_KEY, null) runs after both awaits: it returns what
\* the LocalStore holds then, not what it held when loadStatus was called
localStoreGet(atStart, now) == now

\* response.json() settles and the rest of loadStatus runs: fromJSON, the
\* read of the LocalStore, the choice of the selected repo, the sort
JsonSettles ==
  /\ pc = "decoding"
  /\ \E json \in {"rejected", "undecodable", "ok"}, list \in fromJSON,
        get \in {"ok", "throws"} :
       LET reached == json = "ok" /\ list # <<>>
           read == localStoreGet(run.atStart, store)
           pref == IF reached /\ get = "ok" THEN read ELSE Null
       IN  /\ json # "ok" => list = <<>>
           /\ ~reached => get = "ok"
           /\ run' = [run EXCEPT !.json = json, !.list = list,
                                 !.get = IF reached THEN get ELSE "pending",
                                 !.pref = pref]
           /\ Settled(tryCatch(loadStatusDecoded(json, list, get, read)))
  /\ UNCHANGED <<store, codec>>

\* localStore.set is left out
Selected_noStore(repo, op) ==
  LET done == onChange(status, Host(hostCount, hostLast), repo)
  IN  /\ status' = done.status
      /\ hostCount' = done.host.count
      /\ hostLast' = done.host.last
      /\ event' = [op |-> op, repo |-> repo, before |-> status.type]
      /\ UNCHANGED <<store, pc, run, promise, initCalls, codec>>

\* localStore.set is called only when the status is VALID
Selected_storeOnlyValid(repo, op) ==
  LET done == onChange(status, Host(hostCount, hostLast), repo)
  IN  /\ status' = done.status
      /\ hostCount' = done.host.count
      /\ hostLast' = done.host.last
      /\ store' = IF status.type = "VALID" THEN repo ELSE store
      /\ event' = [op |-> op, repo |-> repo, before |-> status.type]
      /\ UNCHANGED <<pc, run, promise, initCalls, codec>>

\* the onChange LocalStoreRepositorySelect hands to its children:
\* this.props.onChange(repo), which is RepositorySelect.onChange, then
\* localStore.set(REPO_KEY, repo)
Selected(repo, op) ==
  LET done == onChange(status, Host(hostCount, hostLast), repo)
  IN  /\ status' = done.status
      /\ hostCount' = done.host.count
      /\ hostLast' = done.host.last
      /\ store' = repo
      /\ event' = [op |-> op, repo |-> repo, before |-> status.type]
      /\ UNCHANGED <<pc, run, promise, initCalls, codec>>

\* a caller of the onChange callback passes it any repo, in any status
OnUserSelect ==
  /\ hostCount < MaxCalls
  /\ \E repo \in Repos : Selected(repo, "onChange")

\* the user picks option i of the rendered <select>: the handler parses the
\* option value; a value that does not parse throws out of the handler
SelectOption ==
  /\ hostCount < MaxCalls
  /\ \E i \in 1..Len(renderOptions(status)) :
       LET parsed == repoStringToRepo(renderOptions(status)[i])
       IN  IF parsed.ok
             THEN Selected(parsed.repo, "select")
             ELSE /\ event' = [op |-> "selectThrew", repo |-> Null, before |-> status.type]
                  /\ UNCHANGED <<status, store, pc, run, promise, hostCount, hostLast,
                                 initCalls, codec>>

\* another client of the same LocalStore sets or removes the key
OtherClientSet ==
  /\ \E v \in Repos \cup {Null} :
       /\ v # store
       /\ store' = v
  /\ event' = [op |-> "otherClient", repo |-> Null, before |-> status.type]
  /\ UNCHANGED <<status, pc, run, promise, hostCount, hostLast, initCalls, codec>>

Next ==
  \/ Mount
  \/ FetchSettles
  \/ JsonSettles
  \/ OnUserSelect
  \/ SelectOption
  \/ OtherClientSet

Spec == Init /\ [][Next]_vars

(***************************************************************************)
(* Properties                                                              *)
(***************************************************************************)
Elements(list) == {list[i] : i \in 1..Len(list)}

\* the last step was a call of the onChange callback, from the <select> or not
UserSelected == event.op \in {"onChange", "select"}

\* the step is a call of the onChange callback
UserSelects == event'.op \in {"onChange", "select"}

Member(st) == st.selectedRepo \in Elements(st.availableRepos)

\* loadStatus got to the choice of the selected repo
Chose == run.json = "ok" /\ run.list # <<>> /\ run.get = "ok"

\* C1 as stated: in every reachable state whose status is VALID, after the
\* initial resolution and after any sequence of onChange calls, the selected
\* repo is equal to one of the available repos.
C1_SelectedIsAvailable ==
  status.type = "VALID" => Member(status)

\* C1 amended: the resolution yields a selected repo that is one of the
\* available repos, and every step keeps it one of them provided a repo
\* passed to the onChange callback is one of the available repos (as every
\* option of the rendered <select> is).
C1_SelectedStaysAvailable ==
  [][ ( /\ status'.type = "VALID"
        /\ status.type = "VALID" => Member(status)
        /\ UserSelects => event'.repo \in Elements(status'.availableRepos) )
      => Member(status') ]_vars

\* a selection of another available repo was made, and it is available
C1_Witness ==
  /\ status.type = "VALID"
  /\ UserSelected
  /\ event.before = "VALID"
  /\ status.selectedRepo = event.repo
  /\ status.selectedRepo # promise.value.selectedRepo
  /\ Member(status)

\* C3: when loadStatus decodes a non-empty list and the stored preference
\* (or its absence) equals no element of it, loadStatus returns VALID with
\* the last element of the list in its original order as the selected repo.
C3_FallbackIsLastOfOriginal ==
  (pc = "done" /\ Chose /\ run.pref \notin Elements(run.list))
    => /\ promise.state = "fulfilled"
       /\ promise.value.type = "VALID"
       /\ promise.value.selectedRepo = run.list[Len(run.list)]

\* the fallback was taken and is not the last of the sorted list
C3_Witness ==
  /\ pc = "done" /\ Chose /\ run.pref \notin Elements(run.list)
  /\ run.pref # Null
  /\ promise.value.selectedRepo = run.list[Len(run.list)]
  /\ promise.value.selectedRepo
       # promise.value.availableRepos[Len(promise.value.availableRepos)]

\* C4: when loadStatus decodes a non-empty list, in any order, and the stored
\* preference equals an element of it, loadStatus returns VALID with the
\* stored preference as the selected repo.
C4_PreferenceIsSelected ==
  (pc = "done" /\ Chose /\ run.pref \in Elements(run.list))
    => /\ promise.state = "fulfilled"
       /\ promise.value.type = "VALID"
       /\ promise.value.selectedRepo = run.pref

\* the stored preference was found, and it is neither the last element of
\* the list nor the last of the sorted list
C4_Witness ==
  /\ pc = "done" /\ Chose /\ run.pref \in Elements(run.list)
  /\ promise.value.selectedRepo = run.pref
  /\ run.pref # run.list[Len(run.list)]
  /\ run.pref # promise.value.availableRepos[Len(promise.value.availableRepos)]

\* s <= t, character by character: s is a prefix of t, or at the first
\* position where they differ s has the smaller code unit
LexLeq(s, t) ==
  \E k \in 0..Len(s) :
    /\ k <= Len(t)
    /\ \A i \in 1..k : s[i] = t[i]
    /\ \/ k = Len(s)
       \/ k < Len(t) /\ Code(s[k + 1]) < Code(t[k + 1])

Ascending(list) ==
  \A i, j \in 1..Len(list) :
    i < j => /\ LexLeq(list[i].owner, list[j].owner)
             /\ list[i].owner = list[j].owner => LexLeq(list[i].name, list[j].name)

\* C5: the available repos of the VALID status loadStatus returns, and of
\* the status in every later state, are ascending by owner and, among equal
\* owners, ascending by name, whatever the order of the registry's list.
C5_AvailableReposSorted ==
  /\ (promise.state = "fulfilled" /\ promise.value.type = "VALID")
       => Ascending(promise.value.availableRepos)
  /\ status.type = "VALID" => Ascending(status.availableRepos)

\* the sort reordered a list of three owners and names, and a selection
\* was made afterwards
C5_Witness ==
  /\ status.type = "VALID"
  /\ UserSelected /\ event.before = "VALID"
  /\ Len(run.list) >= 3
  /\ status.availableRepos # run.list
  /\ \E i, j \in 1..Len(run.list) :
       i < j /\ run.list[i].owner = run.list[j].owner
             /\ StrLess(run.list[j].name, run.list[i].name)
  /\ Ascending(status.availableRepos)

\* C2: the status leaves LOADING only in the step that completes the
\* startup resolution, and that step leaves it; LOADING is never entered
\* again; a VALID status stays VALID and changes only by a call of the
\* onChange callback; a NO_REPOS or FAILURE status is never changed.
C2_Transitions ==
  [][ /\ status'.type = "LOADING" => status.type = "LOADING"
      /\ (status.type = "LOADING" /\ status'.type # "LOADING")
           => (pc # "done" /\ pc' = "done" /\ event'.op = "resolved")
      /\ (pc # "done" /\ pc' = "done")
           => /\ status.type = "LOADING"
              /\ status'.type \in {"VALID", "NO_REPOS", "FAILURE"}
      /\ status.type = "VALID"
           => /\ status'.type = "VALID"
              /\ status' # status => UserSelects
      /\ status.type \in {"NO_REPOS", "FAILURE"} => status' = status ]_vars

\* the onChange callback was called in a NO_REPOS or FAILURE status
C2_Witness ==
  /\ status.type \in {"NO_REPOS", "FAILURE"}
  /\ UserSelected
  /\ event.before = status.type
  /\ hostCount >= 2

\* C6: the promise of loadStatus is never rejected, and a rejected fetch, a
\* response that is not ok, a body that does not decode and a LocalStore
\* whose get throws each make it resolve to the FAILURE status.
C6_NoExceptionEscapes ==
  /\ promise.state # "rejected"
  /\ pc = "done"
       => /\ promise.state = "fulfilled"
          /\ ( \/ run.fetch \in {"rejected", "notOk"}
               \/ run.json \in {"rejected", "undecodable"}
               \/ run.get = "throws" )
               => promise.value = Failure

\* the LocalStore threw on a non-empty list and loadStatus returned FAILURE
C6_Witness ==
  /\ pc = "done"
  /\ run.fetch = "ok" /\ run.json = "ok" /\ run.list # <<>> /\ run.get = "throws"
  /\ promise = [state |-> "fulfilled", value |-> Failure]
  /\ status = Failure

\* C7: when the fetch succeeds and the decoded list is empty, loadStatus
\* returns NO_REPOS, whatever the LocalStore holds.
C7_EmptyListIsNoRepos ==
  (run.json = "ok" /\ run.list = <<>>)
    => promise = [state |-> "fulfilled", value |-> NoRepos]

\* an empty list was decoded while the LocalStore held a repo
C7_Witness ==
  /\ event.op = "resolved"
  /\ run.fetch = "ok" /\ run.json = "ok" /\ run.list = <<>>
  /\ store # Null
  /\ status = NoRepos

\* C8: componentDidMount's callback calls the host's onChange once, with the
\* selected repo loadStatus returned, exactly when loadStatus returned
\* VALID; it makes no call while the status is LOADING nor when loadStatus
\* returned NO_REPOS or FAILURE.
C8_InitNotifiesOnceIffValid ==
  /\ [] /\ Len(initCalls) <= 1
        /\ initCalls # <<>>
             <=> (pc = "done" /\ promise.state = "fulfilled"
                              /\ promise.value.type = "VALID")
        /\ initCalls # <<>> => initCalls[1] = promise.value.selectedRepo
        /\ status.type = "LOADING" => initCalls = <<>>
  /\ [][ IF pc # "done" /\ pc' = "done" /\ status'.type = "VALID"
           THEN /\ hostCount' = hostCount + 1
                /\ hostLast' = status'.selectedRepo
                /\ initCalls' = <<status'.selectedRepo>>
           ELSE /\ initCalls' = initCalls
                /\ ~UserSelects => UNCHANGED <<hostCount, hostLast>> ]_vars

\* the resolution just completed with VALID and the host was called once
C8_Witness ==
  /\ event.op = "resolved"
  /\ status.type = "VALID"
  /\ initCalls = <<status.selectedRepo>>
  /\ hostCount = 1
  /\ hostLast = status.selectedRepo

\* C9: every call of the onChange callback calls the host's onChange once,
\* with the repo it was given, whatever the status is.
C9_EverySelectionForwarded ==
  [][ UserSelects => (hostCount' = hostCount + 1 /\ hostLast' = event'.repo) ]_vars

\* the onChange callback was called while the status was LOADING, and the
\* host has been told
C9_Witness ==
  /\ UserSelected
  /\ event.before = "LOADING"
  /\ status.type = "LOADING"
  /\ hostCount = 1
  /\ hostLast = event.repo

\* C10: a call of the onChange callback in a VALID status yields the VALID
\* status with the same available repos and the given repo selected, and
\* stores the given repo under REPO_KEY.
C10_SelectionInValid ==
  [][ (UserSelects /\ status.type = "VALID")
        => /\ status' = Valid(status.availableRepos, event'.repo)
           /\ store' = event'.repo ]_vars

\* a selection in a VALID status replaced the selected repo and the stored
\* preference
C10_Witness ==
  /\ UserSelected
  /\ event.before = "VALID"
  /\ status.type = "VALID"
  /\ status.selectedRepo = event.repo
  /\ status.selectedRepo # promise.value.selectedRepo
  /\ status.availableRepos = promise.value.availableRepos
  /\ store = event.repo
  /\ run.pref # event.repo

(***************************************************************************)
(* The codec on its own: a repo is formatted and the string parsed, or a   *)
(* string is parsed                                                        *)
(***************************************************************************)
\* longest owner and longest name put through the codec
MaxNameLen == 2
\* longest string parsed that was not formatted from a repo
MaxTokenLen == 4

\* the characters the codec is tried on: a letter and the hyphen, which the
\* regexp accepts, the slash, and a character the regexp rejects
CodecAlphabet == {"a", "-", "/", "!"}

RECURSIVE StringsUpTo(_)
StringsUpTo(n) ==
  IF n = 0 THEN {<<>>}
  ELSE LET shorter == StringsUpTo(n - 1)
       IN  shorter \cup {Append(x, c) : x \in {y \in shorter : Len(y) = n - 1},
                                     c \in CodecAlphabet}

CodecInit ==
  /\ status = Loading
  /\ store = Null
  /\ pc = "constructed"
  /\ run = NoRun
  /\ promise = Pending
  /\ hostCount = 0
  /\ hostLast = Null
  /\ initCalls = <<>>
  /\ event = NoEvent
  /\ \/ \E o \in StringsUpTo(MaxNameLen), n \in StringsUpTo(MaxNameLen) :
          codec = [stage |-> "repo", repo |-> Repo(o, n), token |-> <<>>, result |-> Null]
     \/ \E t \in StringsUpTo(MaxTokenLen) :
          codec = [stage |-> "token", repo |-> Null, token |-> t, result |-> Null]

\* renderSelect builds the option value of a repo
Format ==
  /\ codec.stage = "repo"
  /\ codec' = [codec EXCEPT !.stage = "token", !.token = repoString(codec.repo)]
  /\ UNCHANGED <<status, store, pc, run, promise, hostCount, hostLast, initCalls, event>>

\* the <select>'s handler parses the value of the chosen option
Parse ==
  /\ codec.stage = "token"
  /\ codec' = [codec EXCEPT !.stage = "parsed", !.result = repoStringToRepo(codec.token)]
  /\ UNCHANGED <<status, store, pc, run, promise, hostCount, hostLast, initCalls, event>>

CodecNext ==
  \/ Format
  \/ Parse

CodecSpec == CodecInit /\ [][CodecNext]_vars

\* s is one or more characters, each a letter, a digit, "_" or "-"
InClass(s) ==
  /\ Len(s) >= 1
  /\ \A i \in 1..Len(s) :
       \/ Code(s[i]) \in 48..57
       \/ Code(s[i]) \in 65..90
       \/ Code(s[i]) \in 97..122
       \/ s[i] \in {"_", "-"}

SlashesOf(t) == {i \in 1..Len(t) : t[i] = "/"}

\* t has no slash or several, or the part before or behind its slash is
\* empty or holds a character outside the class
Malformed(t) ==
  IF Cardinality(SlashesOf(t)) # 1 THEN TRUE
  ELSE LET p == CHOOSE i \in SlashesOf(t) : TRUE
       IN  \/ ~InClass(SubSeq(t, 1, p - 1))
           \/ ~InClass(SubSeq(t, p + 1, Len(t)))

\* C11: for every repo whose owner and name are in the class, parsing the
\* string "owner/name" built from it succeeds and returns an equal repo.
C11_RoundTrip ==
  ( /\ codec.stage = "parsed"
    /\ codec.repo # Null
    /\ InClass(codec.repo.owner)
    /\ InClass(codec.repo.name) )
    => codec.result = [ok |-> TRUE, repo |-> codec.repo]

\* a repo with a two-character owner holding a hyphen went through both
\* ways, and its owner differs from its name
C11_Witness ==
  /\ codec.stage = "parsed"
  /\ codec.repo # Null
  /\ InClass(codec.repo.owner) /\ InClass(codec.repo.name)
  /\ Len(codec.repo.owner) = 2 /\ codec.repo.owner[2] = "-"
  /\ codec.repo.owner # codec.repo.name
  /\ codec.token = codec.repo.owner \o <<"/">> \o codec.repo.name
  /\ codec.result.ok
  /\ codec.result.repo = codec.repo

\* C12: parsing fails, and yields no repo, for every string with no slash
\* or more than one, or whose owner or name part is empty, or whose owner
\* or name part holds a character outside the class.
C12_ParseRejects ==
  (codec.stage = "parsed" /\ Malformed(codec.token))
    => /\ ~codec.result.ok
       /\ DOMAIN codec.result = {"ok"}

\* a string with one slash, an owner in the class and an empty name was
\* rejected
C12_Witness ==
  /\ codec.stage = "parsed"
  /\ Cardinality(SlashesOf(codec.token)) = 1
  /\ codec.token[Len(codec.token)] = "/"
  /\ InClass(SubSeq(codec.token, 1, Len(codec.token) - 1))
  /\ ~codec.result.ok

\* the repo loadStatus selects from a list when the LocalStore yields pref
Chosen(list, pref) == IF pref \in Elements(list) THEN pref ELSE list[Len(list)]

\* the onChange callback has not been called since the constructor
NoUserCall == hostCount = Len(initCalls)

\* C14 as stated: the selected repo loadStatus returns is the one chosen
\* from what the LocalStore held when loadStatus was called, also when
\* another client wrote the LocalStore while the fetch was in flight.
C14_ReadAtStart ==
  (event.op = "resolved" /\ Chose /\ NoUserCall)
    => promise.value.selectedRepo = Chosen(run.list, run.atStart)

\* C14 amended: loadStatus reads the LocalStore after the response has been
\* fetched and decoded: the selected repo it returns is chosen from what
\* the LocalStore holds at that moment, so a write made while the fetch was
\* in flight decides it, and a write made afterwards no longer changes what
\* loadStatus returned.
C14_ReadAfterDecode ==
  [][ /\ ( /\ pc = "decoding" /\ pc' = "done"
           /\ run'.json = "ok" /\ run'.list # <<>> /\ run'.get = "ok" )
        => /\ run'.pref = store
           /\ promise'.value.type = "VALID"
           /\ promise'.value.selectedRepo = Chosen(run'.list, store)
      /\ pc = "done" => promise' = promise ]_vars

\* another client replaced a listed preference by another listed one while
\* the fetch was in flight, and loadStatus selected the later one
C14_Witness ==
  /\ event.op = "resolved" /\ Chose /\ NoUserCall
  /\ run.atStart \in Elements(run.list)
  /\ run.pref \in Elements(run.list)
  /\ run.atStart # run.pref
  /\ promise.value.selectedRepo = run.pref
  /\ status.selectedRepo = run.pref

\* C15 as stated: a call of the onChange callback in a LOADING, NO_REPOS or
\* FAILURE status leaves the status unchanged and does not write the
\* LocalStore.
C15_NoWriteOutsideValid ==
  [][ (UserSelects /\ status.type # "VALID")
        => (status' = status /\ store' = store) ]_vars

\* C15 amended: a call of the onChange callback in a LOADING, NO_REPOS or
\* FAILURE status leaves the status unchanged, and stores the given repo
\* under REPO_KEY all the same: only the replacement of the selected repo
\* is confined to the VALID status.
C15_WriteOutsideValid ==
  [][ (UserSelects /\ status.type # "VALID")
        => (status' = status /\ store' = event'.repo) ]_vars

\* the onChange callback was called in a NO_REPOS status with a repo the
\* LocalStore did not hold when loadStatus ran, and the LocalStore holds it
C15_Witness ==
  /\ UserSelected
  /\ event.before = "NO_REPOS"
  /\ status = NoRepos
  /\ store = event.repo
  /\ run.atStart # event.repo
  /\ hostCount = 1

\* C16: from the constructor until the promise of loadStatus settles the
\* status is LOADING and the <select> offers no option; the status set when
\* it settles is the one loadStatus returned, whose selected repo is the one
\* chosen from the decoded list and the preference read; and an option of
\* the <select> is picked only in a VALID status, after that.
C16_LoadingUntilResolved ==
  /\ [] /\ pc # "done"
             => (status = Loading /\ promise = Pending /\ renderOptions(status) = <<>>)
        /\ status.type # "VALID" => renderOptions(status) = <<>>
        /\ event.op = "resolved" => (promise.state = "fulfilled" /\ status = promise.value)
        /\ (event.op = "resolved" /\ Chose)
             => status.selectedRepo = Chosen(run.list, run.pref)
  /\ [][ event'.op \in {"select", "selectThrew"}
           => (pc = "done" /\ status.type = "VALID") ]_vars

\* the onChange callback was called while the fetch was in flight, and the
\* status set afterwards is the VALID status loadStatus returned
C16_Witness ==
  /\ event.op = "resolved"
  /\ hostCount = 2 /\ Len(initCalls) = 1
  /\ status.type = "VALID"
  /\ status = promise.value
  /\ status.selectedRepo = Chosen(run.list, run.pref)
  /\ run.pref # run.atStart

(***************************************************************************)
(* Several RepositorySelect instances, one after the other, on the same    *)
(* LocalStore, which nothing else writes                                   *)
(***************************************************************************)
\* most instances in one run
MaxSessions == 2

\* the page is left and loaded again: a new RepositorySelect is constructed,
\* and the LocalStore is what the instance before it left
NewSession ==
  /\ pc = "done"
  /\ run.session < MaxSessions
  /\ status' = Loading
  /\ pc' = "constructed"
  /\ run' = [NoRun EXCEPT !.session = run.session + 1,
                          !.prev = IF UserSelected /\ event.before = "VALID"
                                     THEN event.repo ELSE Null]
  /\ promise' = Pending
  /\ hostCount' = 0
  /\ hostLast' = Null
  /\ initCalls' = <<>>
  /\ event' = NoEvent
  /\ UNCHANGED <<store, codec>>

SessionNext ==
  \/ Mount
  \/ FetchSettles
  \/ JsonSettles
  \/ OnUserSelect
  \/ SelectOption
  \/ NewSession

SessionSpec == Init /\ [][SessionNext]_vars

\* C17: when an instance ended on a selection made in a VALID status, of
\* repo r, and the next instance on the same LocalStore, which nothing else
\* wrote and whose onChange callback has not been called, decodes a list
\* that contains r, its loadStatus returns VALID with r selected.
C17_SelectionPersists ==
  ( /\ run.session > 1 /\ run.prev # Null
    /\ event.op = "resolved" /\ NoUserCall
    /\ run.json = "ok" /\ run.get = "ok"
    /\ run.prev \in Elements(run.list) )
    => /\ promise.state = "fulfilled"
       /\ promise.value.type = "VALID"
       /\ promise.value.selectedRepo = run.prev
       /\ status = promise.value

\* the second instance selected the repo the first ended on, which is
\* neither the last of the decoded list nor the last of the sorted list
C17_Witness ==
  /\ run.session = 2 /\ run.prev # Null
  /\ event.op = "resolved" /\ NoUserCall
  /\ Chose
  /\ run.prev \in Elements(run.list)
  /\ run.prev # run.list[Len(run.list)]
  /\ run.prev # status.availableRepos[Len(status.availableRepos)]
  /\ status.selectedRepo = run.prev

\* C18: for every VALID status loadStatus returns and every available repo
\* of it, parsing the option value built from the repo succeeds and returns
\* an equal repo; no pick of an option throws.
C18_OfferedOptionsParse ==
  /\ (promise.state = "fulfilled" /\ promise.value.type = "VALID")
       => \A i \in 1..Len(promise.value.availableRepos) :
            repoStringToRepo(renderOptions(promise.value)[i])
              = [ok |-> TRUE, repo |-> promise.value.availableRepos[i]]
  /\ event.op # "selectThrew"

\* an option other than the selected one was picked from a list of three
\* and parsed to the repo it shows
C18_Witness ==
  /\ event.op = "select"
  /\ event.before = "VALID"
  /\ Len(promise.value.availableRepos) >= 3
  /\ event.repo \in Elements(promise.value.availableRepos)
  /\ event.repo # promise.value.selectedRepo
  /\ status.selectedRepo = event.repo

\* C19: in every state whose status is VALID, the repo last passed to the
\* host's onChange is the selected repo of the status, however the calls of
\* the onChange callback interleave with the fetch.
C19_HostInSync ==
  status.type = "VALID" => (hostCount >= 1 /\ hostLast = status.selectedRepo)

\* the onChange callback was called while the fetch was in flight and again
\* in the VALID status, with a repo loadStatus had not selected
C19_Witness ==
  /\ status.type = "VALID"
  /\ UserSelected /\ event.before = "VALID"
  /\ hostCount = 3 /\ Len(initCalls) = 1
  /\ hostLast = status.selectedRepo
  /\ hostLast # initCalls[1]

\* the number of times r occurs in list
Count(list, r) == Cardinality({i \in 1..Len(list) : list[i] = r})

SamePermutation(a, b) ==
  /\ Len(a) = Len(b)
  /\ \A r \in Elements(a) \cup Elements(b) : Count(a, r) = Count(b, r)

\* C20: the available repos of the VALID status loadStatus returns, and of
\* the status in every later state, are a permutation of the decoded list:
\* the same length, and every repo as many times.
C20_AvailableIsPermutation ==
  /\ (promise.state = "fulfilled" /\ promise.value.type = "VALID")
       => SamePermutation(promise.value.availableRepos, run.list)
  /\ status.type = "VALID" => SamePermutation(status.availableRepos, run.list)

\* a list that holds a repo twice was sorted into another order, and a
\* selection was made afterwards
C20_Witness ==
  /\ status.type = "VALID"
  /\ UserSelected /\ event.before = "VALID"
  /\ \E r \in Elements(run.list) : Count(run.list, r) = 2
  /\ status.availableRepos # run.list
  /\ SamePermutation(status.availableRepos, run.list)

====
